---- MODULE Spec2Model ----
(***************************************************************************)
(* Model of ironboxdx/IronBoxDXRESTClient.py: one IronBoxDXRESTClient      *)
(* instance, the Transport (requests.post) and the Blob Transfer Delegate  *)
(* (azure BlockBlobService) it talks to.                                   *)
(*                                                                         *)
(* The client instance is the shared state; every public method call runs  *)
(* on a caller thread whose local variables are the fields of threads[t].  *)
(* Spec runs one call at a time on one thread; SpecConc lets two threads   *)
(* upload through the same client instance at once.                        *)
(***************************************************************************)
EXTENDS Integers, Sequences, FiniteSets, TLC

\* ------------------------------------------------------------------ bounds
MaxBytes == 2          \* largest byte source handed to the delegate
NumHandshakes == 2     \* distinct handshakes the server hands out
MaxShown == 5          \* largest current and total a direct call of the renderer is given

\* --------------------------------------------------------------- constants
StatusOK == 200        \* requests.codes["ok"]
ProgressBarSize == 40  \* the default of __progressbar's progressBarSize (line 95)

Threads == {"t1", "t2"}
MainThread == "t1"

StatusCodes == {StatusOK, 204, 500}
\* The accounts a client is built for: a key pair and the API it belongs to
\* (the production default of line 57, or a development server).
Accounts ==
    {[apiKeyPublicID |-> "pk-A", apiKeySecret |-> "sk-A",
      baseAPIUrl |-> "https://dx-api.ironbox.app/api/v2/"],
     [apiKeyPublicID |-> "pk-B", apiKeySecret |-> "sk-B",
      baseAPIUrl |-> "https://localhost:44300/api/v2/"]}
ArgVals == {"a1", "a2"}

InitializeRoute == "dx/cloud/sse/blob/initialize/api"
FinalizeRoute == "dx/cloud/sse/blob/finalize/api"
DownloadRoute == "dx/cloud/sse/blob/download/api"

UploadOps == {"uploadBlobToSSEContainerFromPath", "uploadBlobToSSEContainerFromText"}
DownloadOp == "downloadSSEContainerBlobToPath"

HandshakeKeys ==
    {"accessToken", "accessSignatureUri", "cloudContainerStorageName",
     "cloudBlobStorageName", "finalizeToken", "blobPublicID"}

\* ------------------------------------------------- response bodies and JSON
\* A response body as the Transport delivers it: zero bytes, the text
\* "null", or a JSON object with the given keys (id tells two objects with
\* the same keys apart).
EmptyContent == [kind |-> "empty", keys |-> {}, id |-> 0]
NullContent == [kind |-> "null", keys |-> {}, id |-> 0]
EmptyObjectContent == [kind |-> "object", keys |-> {}, id |-> 0]
ResultContent == [kind |-> "object", keys |-> {"publicID"}, id |-> 1]
HandshakeContent(i) == [kind |-> "object", keys |-> HandshakeKeys, id |-> i]

\* A body with nothing in it: zero bytes, null, or {}.
EmptyBodies == {EmptyContent, NullContent, EmptyObjectContent}

Contents ==
    {EmptyContent, NullContent, EmptyObjectContent, ResultContent}
        \cup {HandshakeContent(i) : i \in 1..NumHandshakes}

\* Bodies that come with a failure status; one of them is a well-formed
\* handshake, so that a missing status check would go unnoticed by the parser.
ErrorContents == {EmptyContent, HandshakeContent(1)}

Responses ==
    {[status |-> StatusOK, content |-> c] : c \in Contents}
        \cup {[status |-> s, content |-> c] : s \in StatusCodes \ {StatusOK}, c \in ErrorContents}

\* A Python value: None, a dict, or "unset" for a local that was never bound.
NoValue == [kind |-> "unset", keys |-> {}, id |-> 0]
PyNone == [kind |-> "None", keys |-> {}, id |-> 0]

\* Response.json(): raises on a zero-length body, gives None for "null" and
\* a dict for an object.
JsonParse(content) ==
    IF content.kind = "empty"
    THEN [ok |-> FALSE, value |-> NoValue]
    ELSE [ok |-> TRUE,
          value |-> [kind |-> IF content.kind = "null" THEN "None" ELSE "dict",
                     keys |-> content.keys,
                     id |-> content.id]]

\* Python truthiness of a parsed value (None and {} are falsy).
Truthy(v) == v.kind = "dict" /\ v.keys # {}

\* v[key] for the keys the client reads: "" when it returns a value, else
\* the exception it raises.
SubscriptError(v, keys) ==
    IF v.kind # "dict" THEN "TypeError"
    ELSE IF keys \subseteq v.keys THEN ""
    ELSE "KeyError"

StorageAccount(i) == <<"ironboxaccount", i>>
AccessSignatureUri(i) ==
    [scheme |-> "https",
     hostname |-> <<StorageAccount(i), "blob", "core", "windows", "net">>,
     path |-> <<"container", i>>]
Field(v, key) ==
    IF key = "accessSignatureUri" THEN AccessSignatureUri(v.id) ELSE <<key, v.id>>

ExtractStorageAccountName(accessSignatureUri) == Head(accessSignatureUri.hostname)

\* ---------------------------------------------------------------- state
VARIABLES
    constructed,            \* history: the arguments the constructor was called with
    config,                 \* the six private configuration attributes (lines 58-63)
    lastUploadTotalBytes,   \* self.__lastUploadTotalBytes
    sas_service,            \* self.sas_service (absent until a transfer sets it)
    lastStoring,            \* history: the most recent callback that wrote lastUploadTotalBytes
    threads,                \* per caller thread: position and locals of its current call
    twin,                   \* a second client instance compared with this one (SpecTwin)
    server                  \* the remote service: its blobs and what it has served (SpecServer)

vars == <<constructed, config, lastUploadTotalBytes, sas_service, lastStoring, threads, twin,
          server>>

NoService == [present |-> FALSE, account_name |-> <<"", 0>>, sas_token |-> <<"", 0>>]
NoDelegate == [op |-> "none", account_name |-> <<"", 0>>, sas_token |-> <<"", 0>>,
               container_name |-> <<"", 0>>, blob_name |-> <<"", 0>>]
NoCallback == [thread |-> "none", total |-> 0, replaced |-> 0]
NoTwin == [phase |-> "none"]
NoServer == [phase |-> "none"]

IdleThread ==
    [pc |-> "idle", op |-> "none", arg |-> "", initResponse |-> NoValue,
     delegate |-> NoDelegate, total |-> 0, started |-> FALSE, current |-> 0,
     written |-> <<>>, linebreaks |-> 0,
     reqs |-> <<>>,
     events |-> <<>>, outcome |-> "none", error |-> "", result |-> NoValue]

\* IronBoxDXRESTClient.__init__
ClientInit ==
    /\ \E a \in Accounts, verifySSLCert \in BOOLEAN, showDebugInfo \in BOOLEAN, verbose \in BOOLEAN :
          constructed =
              [apiKeyPublicID |-> a.apiKeyPublicID, apiKeySecret |-> a.apiKeySecret,
               baseAPIUrl |-> a.baseAPIUrl, verifySSLCert |-> verifySSLCert,
               showDebugInfo |-> showDebugInfo, verbose |-> verbose]
    /\ config = constructed
    /\ lastUploadTotalBytes = 0
    /\ sas_service = NoService

Init ==
    /\ ClientInit
    /\ lastStoring = NoCallback
    /\ threads = [t \in Threads |-> IdleThread]
    /\ twin = NoTwin
    /\ server = NoServer

\* ------------------------------------------------------------- transport
\* SendPost as it would be if the verify argument were left at its default.
SendPostAlwaysVerifying(cfg, route, data) ==
    [method |-> "POST",
     url |-> <<cfg.baseAPIUrl, route>>,
     json |-> data,
     headers |-> [ironbox_apikey_publicid |-> cfg.apiKeyPublicID,
                  ironbox_apikey_secret |-> cfg.apiKeySecret],
     verify |-> TRUE]

\* __sendPost: the request handed to requests.post
SendPost(cfg, route, data) ==
    [method |-> "POST",
     url |-> <<cfg.baseAPIUrl, route>>,
     json |-> data,
     headers |-> [ironbox_apikey_publicid |-> cfg.apiKeyPublicID,
                  ironbox_apikey_secret |-> cfg.apiKeySecret],
     verify |-> cfg.verifySSLCert]

\* __sendPost, lines 74-76: with showDebugInfo on, the status code and the
\* raw content of the response are printed.
DebugPrint(cfg, resp) ==
    IF cfg.showDebugInfo THEN <<[status |-> resp.status, content |-> resp.content]>> ELSE <<>>

\* SendPostReturn as it would be if the debug prints used up the body of
\* the response.
SendPostReturnDrained(cfg, resp) ==
    IF cfg.showDebugInfo THEN [resp EXCEPT !.content = EmptyContent] ELSE resp

\* __sendPost, line 77: `return response`, the response as requests.post
\* gave it, whatever the debug flag.
SendPostReturn(cfg, resp) == resp

\* One entry of a call's request log: the request, the status and content
\* the server answered with, whether .json() was called on the response,
\* and what __sendPost printed.
Exchange(req, resp, parsed, printed) ==
    [request |-> req, status |-> resp.status, content |-> resp.content, parsed |-> parsed,
     printed |-> printed]

\* The route a logged request went to.
RouteOf(x) == x.request.url[2]

\* CheckedJson as it would be without the status check.
CheckedJsonAnyStatus(resp, error) ==
    LET j == JsonParse(resp.content) IN
    IF j.ok
    THEN [raised |-> FALSE, error |-> "", parsed |-> TRUE, value |-> j.value]
    ELSE [raised |-> TRUE, error |-> "JSONDecodeError", parsed |-> TRUE, value |-> NoValue]

\* CheckedJson as it would be with .json() called ahead of the status check.
CheckedJsonParseFirst(resp, error) ==
    LET j == JsonParse(resp.content) IN
    IF ~j.ok
    THEN [raised |-> TRUE, error |-> "JSONDecodeError", parsed |-> TRUE, value |-> NoValue]
    ELSE IF resp.status # StatusOK
    THEN [raised |-> TRUE, error |-> error, parsed |-> TRUE, value |-> NoValue]
    ELSE [raised |-> FALSE, error |-> "", parsed |-> TRUE, value |-> j.value]

\* The status check followed by .json() that every route shares:
\*     if r.status_code != requests.codes["ok"]: raise Exception(error)
\*     return r.json()
CheckedJson(resp, error) ==
    IF resp.status # StatusOK
    THEN [raised |-> TRUE, error |-> error, parsed |-> FALSE, value |-> NoValue]
    ELSE LET j == JsonParse(resp.content) IN
         IF j.ok
         THEN [raised |-> FALSE, error |-> "", parsed |-> TRUE, value |-> j.value]
         ELSE [raised |-> TRUE, error |-> "JSONDecodeError", parsed |-> TRUE, value |-> NoValue]

\* InitializeOutcome as it would be without the status check of line 133.
InitializeOutcomeNoStatusCheck(resp) ==
    LET j == JsonParse(resp.content) IN
    IF ~j.ok
    THEN [raised |-> TRUE, error |-> "JSONDecodeError", parsed |-> TRUE, value |-> NoValue]
    ELSE IF ~Truthy(j.value)
    THEN [raised |-> TRUE, error |-> "Initialize SSE blob returned an invalid response",
          parsed |-> TRUE, value |-> NoValue]
    ELSE [raised |-> FALSE, error |-> "", parsed |-> TRUE, value |-> j.value]

\* __initializeBlobToSSEContainer, lines 133-138
InitializeOutcome(resp) ==
    LET r == CheckedJson(resp, "Unable to initialize SSE blob") IN
    IF r.raised THEN r
    ELSE IF ~Truthy(r.value)
    THEN [raised |-> TRUE, error |-> "Initialize SSE blob returned an invalid response",
          parsed |-> TRUE, value |-> NoValue]
    ELSE r

\* __finalizeBlobInSSEContainer, lines 151-156
FinalizeOutcome(resp) == CheckedJson(resp, "Unable to finalize SSE blob")

\* __upload_callback: the value of __lastUploadTotalBytes after the call
UploadCallbackStores(verbose, current) == verbose /\ current # 0

\* upload_callback as it would be if it stored a total only while none
\* was stored yet.
upload_callback_once(last, verbose, current, total) ==
    IF UploadCallbackStores(verbose, current) /\ last = 0 THEN total ELSE last

\* upload_callback as it would be if it kept the bytes moved so far.
upload_callback_current(last, verbose, current, total) ==
    IF UploadCallbackStores(verbose, current) THEN current ELSE last

\* upload_callback as it would be if it added up the totals it is given.
upload_callback_accumulating(last, verbose, current, total) ==
    IF UploadCallbackStores(verbose, current) THEN last + total ELSE last

upload_callback(last, verbose, current, total) ==
    IF UploadCallbackStores(verbose, current) THEN total ELSE last

\* ------------------------------------------------------------- progress
\* One write to the output stream. A bar line is the text
\*     "%s [%s%s] %i/%i\r" % (label, "#"*x, "."*(progressBarSize-x), j, total)
\* kept as its parts; CR and LF are the writes of "\r" and "\n".
BarLine(label, x, j, total) ==
    [kind |-> "bar", label |-> label, hashes |-> x,
     dots |-> IF ProgressBarSize - x > 0 THEN ProgressBarSize - x ELSE 0,
     current |-> j, total |-> total]

CR == [kind |-> "CR", label |-> "", hashes |-> 0, dots |-> 0, current |-> 0, total |-> 0]

LF == [kind |-> "LF", label |-> "", hashes |-> 0, dots |-> 0, current |-> 0, total |-> 0]

\* FilledCells as it would be if the quotient were rounded up.
FilledCellsRoundedUp(j, total) == (ProgressBarSize * j + total - 1) \div total

\* int(progressBarSize * (j/total)) for j >= 0 and total > 0
FilledCells(j, total) == (ProgressBarSize * j) \div total

\* progressbar as it would be if it ended every redraw with a line break.
progressbar_breaking_every_line(current, total, label) ==
    IF current # 0 /\ total = 0
    THEN [raised |-> TRUE, error |-> "ZeroDivisionError", written |-> <<>>]
    ELSE LET x == IF current = 0 THEN 0 ELSE FilledCells(current, total)
         IN [raised |-> FALSE, error |-> "",
             written |-> <<BarLine(label, x, current, total), CR, LF>>]

\* __progressbar(current, total, label): what it writes, or the exception
\* its division raises.
progressbar(current, total, label) ==
    IF current # 0 /\ total = 0
    THEN [raised |-> TRUE, error |-> "ZeroDivisionError", written |-> <<>>]
    ELSE LET x == IF current = 0 THEN 0 ELSE FilledCells(current, total)
             line == <<BarLine(label, x, current, total), CR>>
         IN [raised |-> FALSE, error |-> "",
             written |-> IF current = total THEN Append(line, LF) ELSE line]

\* __upload_callback: what the call writes to the output stream
upload_callback_output(verbose, current, total) ==
    IF UploadCallbackStores(verbose, current)
    THEN progressbar(current, total, "Uploading").written
    ELSE <<>>

\* download_callback as it would be without the `current != 0` test.
download_callback_unsuppressed(verbose, current, total) ==
    IF verbose THEN progressbar(current, total, "Downloading").written ELSE <<>>

\* __download_callback: what the call writes to the output stream
download_callback(verbose, current, total) ==
    IF verbose /\ current # 0
    THEN progressbar(current, total, "Downloading").written
    ELSE <<>>

\* The line breaks written during a transfer so far, counted 0, 1, and 2
\* for any larger number.
CountBreaks(n, written) ==
    IF \E i \in DOMAIN written : written[i] = LF
    THEN (IF n = 0 THEN 1 ELSE 2)
    ELSE n

\* ---------------------------------------------------------------- helpers
Raise(th, error) ==
    [th EXCEPT !.pc = "done", !.outcome = "raised", !.error = error]

ReturnValue(th, value) ==
    [th EXCEPT !.pc = "done", !.outcome = "returned", !.result = value]

\* The current values the delegate may report next: it starts with
\* (0, total) and never goes back.
NextCurrents(th) ==
    IF ~th.started THEN {0} ELSE th.current..th.total

\* The delegate has reported its first callback and all of its bytes.
TransferFinished(th) == th.started /\ th.current = th.total

\* StartUpload as it would be if an upload began by clearing the stored
\* byte count.
StartUploadClearingCount(t, op, args, responses) ==
    /\ threads[t].pc = "idle"
    /\ \E a \in args, resp \in responses :
        LET body == [containerPublicID |-> a, blobName |-> "report.txt",
                     blobDescription |-> "", containerAccessPassword |-> ""]
            r == InitializeOutcome(SendPostReturn(config, resp))
            th0 == [IdleThread EXCEPT
                       !.op = op, !.arg = a,
                       !.reqs = <<Exchange(SendPost(config, InitializeRoute, body), resp, r.parsed,
                                          DebugPrint(config, resp))>>,
                       !.events = <<"initialize_post", "initialize_response">>]
        IN threads' = [threads EXCEPT ![t] =
               IF r.raised THEN Raise(th0, r.error)
               ELSE [th0 EXCEPT !.pc = "transfer", !.initResponse = r.value]]
    /\ lastUploadTotalBytes' = 0
    /\ UNCHANGED <<server, twin, constructed, config, sas_service, lastStoring>>

\* ---------------------------------------------------------------- upload
\* uploadBlobToSSEContainerFromPath / FromText up to the return of
\* __initializeBlobToSSEContainer (lines 288-291, 323-326)
StartUpload(t, op, args, responses) ==
    /\ threads[t].pc = "idle"
    /\ \E a \in args, resp \in responses :
        LET body == [containerPublicID |-> a, blobName |-> "report.txt",
                     blobDescription |-> "", containerAccessPassword |-> ""]
            r == InitializeOutcome(SendPostReturn(config, resp))
            th0 == [IdleThread EXCEPT
                       !.op = op, !.arg = a,
                       !.reqs = <<Exchange(SendPost(config, InitializeRoute, body), resp, r.parsed,
                                          DebugPrint(config, resp))>>,
                       !.events = <<"initialize_post", "initialize_response">>]
        IN threads' = [threads EXCEPT ![t] =
               IF r.raised THEN Raise(th0, r.error)
               ELSE [th0 EXCEPT !.pc = "transfer", !.initResponse = r.value]]
    /\ UNCHANGED <<server, twin, constructed, config, lastUploadTotalBytes, sas_service, lastStoring>>

uploadBlobToSSEContainerFromPath(t, args, responses) ==
    StartUpload(t, "uploadBlobToSSEContainerFromPath", args, responses)

uploadBlobToSSEContainerFromText(t, args, responses) ==
    StartUpload(t, "uploadBlobToSSEContainerFromText", args, responses)

DelegateOp(op) ==
    IF op = "uploadBlobToSSEContainerFromPath" THEN "create_blob_from_path"
    ELSE IF op = "uploadBlobToSSEContainerFromText" THEN "create_blob_from_text"
    ELSE "get_blob_to_path"

\* BlockBlobService(account_name=..., sas_token=...) built from a handshake
\* (lines 296-297, 331-332, 271-272)
ServiceKeys == {"accessSignatureUri", "accessToken"}

\* ServiceFor as it would be if the service built for the first transfer
\* were kept for the later ones.
ServiceForKept(handshake) ==
    IF sas_service.present THEN sas_service
    ELSE [present |-> TRUE,
          account_name |-> ExtractStorageAccountName(Field(handshake, "accessSignatureUri")),
          sas_token |-> Field(handshake, "accessToken")]

ServiceFor(handshake) ==
    [present |-> TRUE,
     account_name |-> ExtractStorageAccountName(Field(handshake, "accessSignatureUri")),
     sas_token |-> Field(handshake, "accessToken")]

\* self.sas_service.<delegate op>(blob_name=..., container_name=...,
\* progress_callback=...) (lines 298-302, 333-339, 273-277): the call goes
\* to whatever service the instance holds at that moment.
NameKeys == {"cloudBlobStorageName", "cloudContainerStorageName"}

StartDelegate(th, service, handshake, n) ==
    [th EXCEPT
        !.delegate = [op |-> DelegateOp(th.op),
                      account_name |-> service.account_name,
                      sas_token |-> service.sas_token,
                      container_name |-> Field(handshake, "cloudContainerStorageName"),
                      blob_name |-> Field(handshake, "cloudBlobStorageName")],
        !.total = n,
        !.events = Append(th.events, "transfer_start")]

\* Lines 295-297 / 330-332
BeginUploadTransfer(t) ==
    LET th == threads[t]
        err == SubscriptError(th.initResponse, ServiceKeys)
    IN
    /\ th.pc = "transfer"
    /\ IF err # ""
       THEN /\ threads' = [threads EXCEPT ![t] = Raise(th, err)]
            /\ UNCHANGED sas_service
       ELSE /\ sas_service' = ServiceFor(th.initResponse)
            /\ threads' = [threads EXCEPT ![t].pc = "invoke_upload"]
    /\ UNCHANGED <<server, twin, constructed, config, lastUploadTotalBytes, lastStoring>>

\* Lines 298-302 / 333-339: the delegate takes the byte source
InvokeUpload(t) ==
    LET th == threads[t]
        err == SubscriptError(th.initResponse, NameKeys)
    IN
    /\ th.pc = "invoke_upload"
    /\ IF err # ""
       THEN threads' = [threads EXCEPT ![t] = Raise(th, err)]
       ELSE \E n \in 0..MaxBytes :
                threads' = [threads EXCEPT ![t] =
                    [StartDelegate(th, sas_service, th.initResponse, n) EXCEPT !.pc = "uploading"]]
    /\ UNCHANGED <<server, twin, constructed, config, lastUploadTotalBytes, sas_service, lastStoring>>

\* The delegate reports progress: __upload_callback(current, total)
UploadProgress(t) ==
    LET th == threads[t] IN
    /\ th.pc = "uploading"
    /\ \E c \in NextCurrents(th) :
        /\ LET out == upload_callback_output(config.verbose, c, th.total) IN
           threads' = [threads EXCEPT ![t].started = TRUE, ![t].current = c,
                                      ![t].written = out,
                                      ![t].linebreaks = CountBreaks(th.linebreaks, out)]
        /\ lastUploadTotalBytes' = upload_callback(lastUploadTotalBytes, config.verbose, c, th.total)
        /\ lastStoring' = IF UploadCallbackStores(config.verbose, c)
                          THEN [thread |-> t, total |-> th.total,
                                replaced |-> lastUploadTotalBytes]
                          ELSE lastStoring
    /\ UNCHANGED <<server, twin, constructed, config, sas_service>>

\* create_blob_from_path / create_blob_from_text returns
UploadTransferDone(t) ==
    LET th == threads[t] IN
    /\ th.pc = "uploading"
    /\ TransferFinished(th)
    /\ threads' = [threads EXCEPT ![t] =
           [th EXCEPT !.pc = "finalize", !.events = Append(th.events, "transfer_done")]]
    /\ UNCHANGED <<server, twin, constructed, config, lastUploadTotalBytes, sas_service, lastStoring>>

\* TransferError as it would be if the call to the delegate sat in a
\* try/except that logged the error and went on.
TransferErrorCaught(t) ==
    LET th == threads[t]
        th1 == [th EXCEPT !.events = Append(th.events, "transfer_error")]
    IN
    /\ th.pc \in {"uploading", "downloading"}
    /\ threads' = [threads EXCEPT ![t] =
           IF th.pc = "uploading" THEN [th1 EXCEPT !.pc = "finalize"]
           ELSE ReturnValue(th1, PyNone)]
    /\ UNCHANGED <<server, twin, constructed, config, lastUploadTotalBytes, sas_service, lastStoring>>

\* The delegate raises at some point of a transfer, before, between or
\* after its progress callbacks; nothing catches it.
TransferError(t) ==
    LET th == threads[t] IN
    /\ th.pc \in {"uploading", "downloading"}
    /\ threads' = [threads EXCEPT ![t] =
           Raise([th EXCEPT !.events = Append(th.events, "transfer_error")], "DelegateError")]
    /\ UNCHANGED <<server, twin, constructed, config, lastUploadTotalBytes, sas_service, lastStoring>>

FinalizeKeys == {"finalizeToken", "blobPublicID"}

\* FinalizeStep as it would be if the upload from text sent the length of
\* its text as the size.
FinalizeStepTextLength(t, responses) ==
    LET th == threads[t]
        err == SubscriptError(th.initResponse, FinalizeKeys)
    IN
    IF err # ""
    THEN threads' = [threads EXCEPT ![t] = Raise(th, err)]
    ELSE \E resp \in responses :
        LET body == [finalizeToken |-> Field(th.initResponse, "finalizeToken"),
                     blobPublicID |-> Field(th.initResponse, "blobPublicID"),
                     originalSizeBytes |-> IF th.op = "uploadBlobToSSEContainerFromText"
                                           THEN th.total ELSE lastUploadTotalBytes]
            r == FinalizeOutcome(SendPostReturn(config, resp))
            th1 == [th EXCEPT
                       !.reqs = Append(th.reqs, Exchange(SendPost(config, FinalizeRoute, body), resp,
                                                         r.parsed, DebugPrint(config, resp))),
                       !.events = th.events \o <<"finalize_post", "finalize_response">>]
        IN threads' = [threads EXCEPT ![t] =
               IF r.raised THEN Raise(th1, r.error) ELSE ReturnValue(th1, PyNone)]

\* FinalizeStep as it would be if the finalize token and the blob ID were
\* those of the first handshake the server handed out.
FinalizeStepFirstHandshake(t, responses) ==
    LET th == threads[t]
        err == SubscriptError(th.initResponse, FinalizeKeys)
    IN
    IF err # ""
    THEN threads' = [threads EXCEPT ![t] = Raise(th, err)]
    ELSE \E resp \in responses :
        LET body == [finalizeToken |-> Field(HandshakeContent(1), "finalizeToken"),
                     blobPublicID |-> Field(HandshakeContent(1), "blobPublicID"),
                     originalSizeBytes |-> lastUploadTotalBytes]
            r == FinalizeOutcome(SendPostReturn(config, resp))
            th1 == [th EXCEPT
                       !.reqs = Append(th.reqs, Exchange(SendPost(config, FinalizeRoute, body), resp,
                                                         r.parsed, DebugPrint(config, resp))),
                       !.events = th.events \o <<"finalize_post", "finalize_response">>]
        IN threads' = [threads EXCEPT ![t] =
               IF r.raised THEN Raise(th1, r.error) ELSE ReturnValue(th1, PyNone)]

\* Lines 306-314 / 342-349 with __finalizeBlobInSSEContainer
FinalizeStep(t, responses) ==
    LET th == threads[t]
        err == SubscriptError(th.initResponse, FinalizeKeys)
    IN
    IF err # ""
    THEN threads' = [threads EXCEPT ![t] = Raise(th, err)]
    ELSE \E resp \in responses :
        LET body == [finalizeToken |-> Field(th.initResponse, "finalizeToken"),
                     blobPublicID |-> Field(th.initResponse, "blobPublicID"),
                     originalSizeBytes |-> lastUploadTotalBytes]
            r == FinalizeOutcome(SendPostReturn(config, resp))
            th1 == [th EXCEPT
                       !.reqs = Append(th.reqs, Exchange(SendPost(config, FinalizeRoute, body), resp,
                                                         r.parsed, DebugPrint(config, resp))),
                       !.events = th.events \o <<"finalize_post", "finalize_response">>]
        IN threads' = [threads EXCEPT ![t] =
               IF r.raised THEN Raise(th1, r.error) ELSE ReturnValue(th1, PyNone)]

\* FinalizeUpload as it would be if the finalize POST did not wait for the
\* delegate to return.
FinalizeUploadEarly(t, responses) ==
    /\ threads[t].pc \in {"uploading", "finalize"}
    /\ FinalizeStep(t, responses)
    /\ UNCHANGED <<server, twin, constructed, config, lastUploadTotalBytes, sas_service, lastStoring>>

FinalizeUpload(t, responses) ==
    /\ threads[t].pc = "finalize"
    /\ FinalizeStep(t, responses)
    /\ UNCHANGED <<server, twin, constructed, config, lastUploadTotalBytes, sas_service, lastStoring>>

\* -------------------------------------------------------------- download
\* downloadSSEContainerBlobToPath, lines 263-272
downloadSSEContainerBlobToPath(t, args, responses) ==
    /\ threads[t].pc = "idle"
    /\ \E a \in args, resp \in responses :
        LET body == [blobPublicID |-> a]
            r == CheckedJson(SendPostReturn(config, resp), "Unable to download SSE blob")
            err == SubscriptError(r.value, ServiceKeys)
            th0 == [IdleThread EXCEPT
                       !.op = DownloadOp, !.arg = a,
                       !.reqs = <<Exchange(SendPost(config, DownloadRoute, body), resp, r.parsed,
                                          DebugPrint(config, resp))>>,
                       !.events = <<"download_post", "download_response">>]
        IN
        IF r.raised
        THEN /\ threads' = [threads EXCEPT ![t] = Raise(th0, r.error)]
             /\ UNCHANGED sas_service
        ELSE IF err # ""
        THEN /\ threads' = [threads EXCEPT ![t] = Raise(th0, err)]
             /\ UNCHANGED sas_service
        ELSE /\ threads' = [threads EXCEPT ![t] =
                    [th0 EXCEPT !.pc = "invoke_download", !.initResponse = r.value]]
             /\ sas_service' = ServiceFor(r.value)
    /\ UNCHANGED <<server, twin, constructed, config, lastUploadTotalBytes, lastStoring>>

\* Lines 273-277: self.sas_service.get_blob_to_path(...)
InvokeDownload(t) ==
    LET th == threads[t]
        err == SubscriptError(th.initResponse, NameKeys)
    IN
    /\ th.pc = "invoke_download"
    /\ IF err # ""
       THEN threads' = [threads EXCEPT ![t] = Raise(th, err)]
       ELSE \E n \in 0..MaxBytes :
                threads' = [threads EXCEPT ![t] =
                    [StartDelegate(th, sas_service, th.initResponse, n) EXCEPT !.pc = "downloading"]]
    /\ UNCHANGED <<server, twin, constructed, config, lastUploadTotalBytes, sas_service, lastStoring>>

\* DownloadProgress as it would be if __download_callback kept the total
\* the way __upload_callback does.
DownloadProgressStoring(t) ==
    LET th == threads[t] IN
    /\ th.pc = "downloading"
    /\ \E c \in NextCurrents(th) :
        /\ LET out == download_callback(config.verbose, c, th.total) IN
           threads' = [threads EXCEPT ![t].started = TRUE, ![t].current = c,
                                      ![t].written = out,
                                      ![t].linebreaks = CountBreaks(th.linebreaks, out)]
        /\ lastUploadTotalBytes' = upload_callback(lastUploadTotalBytes, config.verbose, c, th.total)
    /\ UNCHANGED <<server, twin, constructed, config, sas_service, lastStoring>>

\* The delegate reports progress: __download_callback(current, total)
\* draws the bar and stores nothing.
DownloadProgress(t) ==
    LET th == threads[t] IN
    /\ th.pc = "downloading"
    /\ \E c \in NextCurrents(th) :
        LET out == download_callback(config.verbose, c, th.total) IN
        threads' = [threads EXCEPT ![t].started = TRUE, ![t].current = c,
                                   ![t].written = out,
                                   ![t].linebreaks = CountBreaks(th.linebreaks, out)]
    /\ UNCHANGED <<server, twin, constructed, config, lastUploadTotalBytes, sas_service, lastStoring>>

\* DownloadDone as it would be if the download ended with a finalize POST
\* the way the uploads do.
DownloadDoneFinalizing(t) ==
    /\ threads[t].pc = "downloading"
    /\ TransferFinished(threads[t])
    /\ FinalizeStep(t, Responses)
    /\ UNCHANGED <<server, twin, constructed, config, lastUploadTotalBytes, sas_service, lastStoring>>

\* get_blob_to_path returns; line 279 logs and the call returns None.
DownloadDone(t) ==
    LET th == threads[t] IN
    /\ th.pc = "downloading"
    /\ TransferFinished(th)
    /\ threads' = [threads EXCEPT ![t] =
           ReturnValue([th EXCEPT !.events = Append(th.events, "transfer_done")], PyNone)]
    /\ UNCHANGED <<server, twin, constructed, config, lastUploadTotalBytes, sas_service, lastStoring>>

\* ------------------------------------------------- CRUD and management
CrudOps ==
    {
      [name |-> "listStorageEndpointsForUser",
       route |-> "dx/storage/list/api",
       fields |-> {},
       error |-> "Unable to get list of accessible storage endpoints",
       returns |-> TRUE],
      [name |-> "createSSEContainer",
       route |-> "dx/cloud/sse/container/create/api",
       fields |-> {"name", "description", "anonymousAccessEnabled", "anonymousAccessPassword", "cloudStorageEndpointPublicID", "humanReadableID"},
       error |-> "Unable to create SSE container",
       returns |-> TRUE],
      [name |-> "deleteSSEContainer",
       route |-> "dx/cloud/sse/container/delete/api",
       fields |-> {"containerPublicID"},
       error |-> "Unable to delete SSE container",
       returns |-> TRUE],
      [name |-> "listSSEContainers",
       route |-> "dx/cloud/sse/containers/get/api",
       fields |-> {"includeContainersQueuedForDelete"},
       error |-> "Unable to list server-side encrypted containers",
       returns |-> TRUE],
      [name |-> "listSSEContainerBlobs",
       route |-> "dx/cloud/sse/blob/get/api",
       fields |-> {"containerPublicID", "skipPastNumItems", "takeNumItems", "state"},
       error |-> "Unable to list server-side encrypted blobs",
       returns |-> TRUE],
      [name |-> "deleteSSEContainerBlob",
       route |-> "dx/cloud/sse/blob/delete/api",
       fields |-> {"blobPublicID"},
       error |-> "Unable to delete server-side encrypted blob",
       returns |-> FALSE],
      [name |-> "getContainerNotificationSettings",
       route |-> "dx/cloud/container/notification/get/api",
       fields |-> {"containerPublicID"},
       error |-> "Unable to read container notification settings",
       returns |-> TRUE],
      [name |-> "setContainerNotificationSettings",
       route |-> "dx/cloud/container/notification/set/api",
       fields |-> {"containerPublicID", "uploadNotificationList", "downloadNotificationList"},
       error |-> "Unable to set container notification settings",
       returns |-> TRUE],
      [name |-> "addUserToSSEContainerACLs",
       route |-> "dx/cloud/sse/containers/acl/add/api",
       fields |-> {"containerPublicID", "userEmail", "canRead", "canWrite", "isAdmin", "enabled", "availableUtc", "expiresUtc"},
       error |-> "Unable to add user to server-side encrypted container ACLs",
       returns |-> TRUE],
      [name |-> "addCustomSecurityGroupToSSEContainerACLs",
       route |-> "dx/cloud/sse/containers/acl/secgroups/custom/add/api",
       fields |-> {"containerPublicID", "customSecurityGroupPublicID", "canRead", "canWrite", "isAdmin", "enabled", "availableUtc", "expiresUtc"},
       error |-> "Unable to add custom security group to server-side encrypted container ACLs",
       returns |-> TRUE],
      [name |-> "deleteSSEContainerACL",
       route |-> "dx/cloud/sse/containers/acl/delete/api",
       fields |-> {"containerPublicID", "membershipPublicID"},
       error |-> "Unable to remove server-side encrypted container ACL",
       returns |-> TRUE],
      [name |-> "listSSEContainerACLs",
       route |-> "dx/cloud/sse/containers/acl/list/api",
       fields |-> {"publicID"},
       error |-> "Unable to read server-side encrypted container ACLs",
       returns |-> TRUE],
      [name |-> "management_readContainerMetaData",
       route |-> "dx/management/container/metadata/api",
       fields |-> {"containerPublicID"},
       error |-> "Unable to read meta data for blob",
       returns |-> TRUE],
      [name |-> "management_setEntityOrganizationMembershipStatus",
       route |-> "dx/management/organization/entities/membership/status/set/api",
       fields |-> {"memberEmail", "enabled"},
       error |-> "Unable to set organization user status",
       returns |-> TRUE],
      [name |-> "management_createOrganizationEntity",
       route |-> "dx/management/organization/entities/create/api",
       fields |-> {"email", "password", "enabled"},
       error |-> "Unable to create organization entity",
       returns |-> TRUE],
      [name |-> "management_listOrganizationMemberEntities",
       route |-> "dx/management/organization/entities/api",
       fields |-> {"skipPastNumItems", "takeNumItems"},
       error |-> "Unable to list organization member entities",
       returns |-> TRUE],
      [name |-> "management_readOrganizationMemberEntityMetadata",
       route |-> "dx/management/organization/entities/metadata/api",
       fields |-> {"memberPublicID"},
       error |-> "Unable to read organization member entity metadata",
       returns |-> TRUE],
      [name |-> "management_setContainerDataTtl",
       route |-> "dx/management/container/datattl/api",
       fields |-> {"containerPublicID", "containerDataTTLHours", "containerDataTTLEnabled"},
       error |-> "Unable to set container data ttl",
       returns |-> TRUE],
      [name |-> "management_setContainerMetadata",
       route |-> "dx/management/container/metadata/set/api",
       fields |-> {"containerPublicID", "metaDataTarget", "metaDataValue"},
       error |-> "Unable to set container metadata",
       returns |-> TRUE],
      [name |-> "management_createCustomSecurityGroup",
       route |-> "dx/management/organization/secgroups/custom/create/api",
       fields |-> {"name", "enabled"},
       error |-> "Unable to create custom security group",
       returns |-> TRUE],
      [name |-> "management_deleteCustomSecurityGroup",
       route |-> "dx/management/organization/secgroups/custom/delete/api",
       fields |-> {"publicID"},
       error |-> "Unable to delete custom security group",
       returns |-> TRUE],
      [name |-> "management_updateCustomSecurityGroup",
       route |-> "dx/management/organization/secgroups/custom/update/api",
       fields |-> {"publicID", "name", "enabled"},
       error |-> "Unable to update custom security group",
       returns |-> TRUE],
      [name |-> "management_addMemberToCustomSecurityGroup",
       route |-> "dx/management/organization/secgroups/custom/addmember/api",
       fields |-> {"publicID", "memberEmail"},
       error |-> "Unable to add member to custom security group",
       returns |-> TRUE],
      [name |-> "management_removeMemberFromCustomSecurityGroup",
       route |-> "dx/management/organization/secgroups/custom/removemember/api",
       fields |-> {"publicID", "memberEmail"},
       error |-> "Unable to remove member from custom security group",
       returns |-> TRUE],
      [name |-> "management_listCustomSecurityGroups",
       route |-> "dx/management/organization/secgroups/custom/api",
       fields |-> {},
       error |-> "Unable to list custom security groups",
       returns |-> TRUE],
      [name |-> "management_readCustomSecurityGroup",
       route |-> "dx/management/organization/secgroups/custom/read/api",
       fields |-> {"publicID"},
       error |-> "Unable to read custom security group",
       returns |-> TRUE],
      [name |-> "management_readContainerLinkBasedAccessSettings",
       route |-> "dx/management/container/settings/linkbased/api",
       fields |-> {"publicID"},
       error |-> "Unable to read container link-based settings",
       returns |-> TRUE],
      [name |-> "management_setContainerLinkBasedAccessSettings",
       route |-> "dx/management/container/settings/linkbased/set/api",
       fields |-> {"publicID", "enabled", "canRead", "canWrite", "accessPassword"},
       error |-> "Unable to set container link-based settings",
       returns |-> TRUE],
      [name |-> "management_addMemberToBuiltInSecurityGroup",
       route |-> "dx/management/organization/secgroups/builtin/addmember/api",
       fields |-> {"groupName", "memberEmail"},
       error |-> "Unable to add member to built-in security group",
       returns |-> TRUE],
      [name |-> "management_removeMemberFromBuiltInSecurityGroup",
       route |-> "dx/management/organization/secgroups/builtin/removemember/api",
       fields |-> {"groupName", "memberEmail"},
       error |-> "Unable to remove member from built-in security group",
       returns |-> TRUE],
      [name |-> "management_readBuiltInSecurityGroup",
       route |-> "dx/management/organization/secgroups/builtin/read/api",
       fields |-> {"groupName"},
       error |-> "Unable to read built-in security group",
       returns |-> TRUE]
    }

\* CrudResult as it would be if no method handed its parsed response back.
CrudResultDiscarded(op, value) == PyNone

\* What a CRUD or management method returns once .json() has given value:
\* `return xResponse` everywhere, except in deleteSSEContainerBlob, whose
\* return statement is commented out (line 255) so that it returns None.
CrudResult(op, value) == IF op.returns THEN value ELSE PyNone

\* CrudCall as it would be if every call began by clearing the byte count
\* of the last upload.
CrudCallClearingCount(t, ops, args, responses) ==
    /\ threads[t].pc = "idle"
    /\ \E op \in ops, a \in args, resp \in responses :
        LET body == [f \in op.fields |-> a]
            r == CheckedJson(SendPostReturn(config, resp), op.error)
            th0 == [IdleThread EXCEPT
                       !.op = op.name, !.arg = a,
                       !.reqs = <<Exchange(SendPost(config, op.route, body), resp, r.parsed,
                                          DebugPrint(config, resp))>>,
                       !.events = <<"post", "response">>]
        IN threads' = [threads EXCEPT ![t] =
               IF r.raised THEN Raise(th0, r.error)
               ELSE ReturnValue(th0, CrudResult(op, r.value))]
    /\ lastUploadTotalBytes' = 0
    /\ UNCHANGED <<server, twin, constructed, config, sas_service, lastStoring>>

\* CrudCall as it would be if a call that got a non-200 answer were sent a
\* second time before giving up.
CrudCallRetrying(t, ops, args, responses) ==
    /\ threads[t].pc = "idle"
    /\ \E op \in ops, a \in args, resp \in responses, again \in responses :
        LET body == [f \in op.fields |-> a]
            first == CheckedJson(SendPostReturn(config, resp), op.error)
            retried == resp.status # StatusOK
            r == IF retried THEN CheckedJson(SendPostReturn(config, again), op.error) ELSE first
            x1 == Exchange(SendPost(config, op.route, body), resp, first.parsed,
                           DebugPrint(config, resp))
            x2 == Exchange(SendPost(config, op.route, body), again, r.parsed,
                           DebugPrint(config, again))
            th0 == [IdleThread EXCEPT
                       !.op = op.name, !.arg = a,
                       !.reqs = IF retried THEN <<x1, x2>> ELSE <<x1>>,
                       !.events = <<"post", "response">>]
        IN threads' = [threads EXCEPT ![t] =
               IF r.raised THEN Raise(th0, r.error)
               ELSE ReturnValue(th0, CrudResult(op, r.value))]
    /\ UNCHANGED <<server, twin, constructed, config, lastUploadTotalBytes, sas_service, lastStoring>>

\* Any of the single round-trip methods: build the body, POST, check the
\* status, parse, return.
CrudCall(t, ops, args, responses) ==
    /\ threads[t].pc = "idle"
    /\ \E op \in ops, a \in args, resp \in responses :
        LET body == [f \in op.fields |-> a]
            r == CheckedJson(SendPostReturn(config, resp), op.error)
            th0 == [IdleThread EXCEPT
                       !.op = op.name, !.arg = a,
                       !.reqs = <<Exchange(SendPost(config, op.route, body), resp, r.parsed,
                                          DebugPrint(config, resp))>>,
                       !.events = <<"post", "response">>]
        IN threads' = [threads EXCEPT ![t] =
               IF r.raised THEN Raise(th0, r.error)
               ELSE ReturnValue(th0, CrudResult(op, r.value))]
    /\ UNCHANGED <<server, twin, constructed, config, lastUploadTotalBytes, sas_service, lastStoring>>

\* The call is over: its result or exception reaches the caller and the
\* locals of the call are gone.
Return(t) ==
    /\ threads[t].pc = "done"
    /\ threads' = [threads EXCEPT ![t] = IdleThread]
    /\ UNCHANGED <<server, twin, constructed, config, lastUploadTotalBytes, sas_service, lastStoring>>

\* ------------------------------------------------------- specifications
\* An upload after its initialize step, and the end of any call.
UploadSteps(t, responses) ==
    \/ BeginUploadTransfer(t)
    \/ InvokeUpload(t)
    \/ UploadProgress(t)
    \/ UploadTransferDone(t)
    \/ TransferError(t)
    \/ FinalizeUpload(t, responses)
    \/ Return(t)

\* One call at a time on the main thread, with the operations, arguments
\* and server answers to choose from.
SequentialStep(ops, args, responses) ==
    \/ uploadBlobToSSEContainerFromPath(MainThread, args, responses)
    \/ uploadBlobToSSEContainerFromText(MainThread, args, responses)
    \/ UploadSteps(MainThread, responses)
    \/ downloadSSEContainerBlobToPath(MainThread, args, responses)
    \/ InvokeDownload(MainThread)
    \/ DownloadProgress(MainThread)
    \/ DownloadDone(MainThread)
    \/ CrudCall(MainThread, ops, args, responses)

\* One call at a time, any operation, any response.
Next == SequentialStep(CrudOps, ArgVals, Responses)

Spec == Init /\ [][Next]_vars

\* The documented default configuration (line 57).
DefaultConfig ==
    [apiKeyPublicID |-> "pk-A", apiKeySecret |-> "sk-A",
     baseAPIUrl |-> "https://dx-api.ironbox.app/api/v2/", verifySSLCert |-> TRUE,
     showDebugInfo |-> FALSE, verbose |-> TRUE]

InitConc ==
    /\ Init
    /\ config = DefaultConfig

\* The server's answers in the concurrent runs: a handshake or a plain failure.
ConcResponses ==
    {[status |-> StatusOK, content |-> HandshakeContent(i)] : i \in 1..NumHandshakes}
        \cup {[status |-> 500, content |-> EmptyContent]}

\* Two caller threads upload through the same client instance, one a file
\* and the other a text.
NextConc ==
    \/ uploadBlobToSSEContainerFromPath("t1", {"a1"}, ConcResponses)
    \/ uploadBlobToSSEContainerFromText("t2", {"a2"}, ConcResponses)
    \/ \E t \in Threads : UploadSteps(t, ConcResponses)

SpecConc == InitConc /\ [][NextConc]_vars

\* The renderer on its own: __progressbar called with any current, total
\* and label, outside of a transfer.
RendererLabels == {"", "Uploading", "Downloading"}

InitBar ==
    /\ constructed = DefaultConfig
    /\ config = constructed
    /\ lastUploadTotalBytes = 0
    /\ sas_service = NoService
    /\ lastStoring = NoCallback
    /\ twin = NoTwin
    /\ server = NoServer
    /\ \E c \in 0..MaxShown, n \in 0..MaxShown, label \in RendererLabels :
          threads = [t \in Threads |->
              IF t = MainThread
              THEN [IdleThread EXCEPT !.pc = "render", !.op = "__progressbar",
                                      !.arg = label, !.current = c, !.total = n]
              ELSE IdleThread]

\* __progressbar runs to its end or to the exception of its division.
Render(t) ==
    LET th == threads[t]
        r == progressbar(th.current, th.total, th.arg)
    IN
    /\ th.pc = "render"
    /\ threads' = [threads EXCEPT ![t] =
           IF r.raised THEN Raise(th, r.error)
           ELSE ReturnValue([th EXCEPT !.written = r.written,
                                       !.linebreaks = CountBreaks(th.linebreaks, r.written)],
                            PyNone)]
    /\ UNCHANGED <<server, twin, constructed, config, lastUploadTotalBytes, sas_service, lastStoring>>

NextBar == Render(MainThread)

SpecBar == InitBar /\ [][NextBar]_vars

\* Two client instances built with the same arguments except for
\* showDebugInfo, given the same calls and the same answers. One instance
\* runs in the variables; the other waits in twin.other. The leading
\* instance takes a step, then the instances change places and the
\* following one takes the step that has the same inputs.
World ==
    [constructed |-> constructed, config |-> config,
     lastUploadTotalBytes |-> lastUploadTotalBytes, sas_service |-> sas_service,
     lastStoring |-> lastStoring, threads |-> threads]

\* The instance kept in w becomes the running one.
Resume(w) ==
    /\ constructed' = w.constructed
    /\ config' = w.config
    /\ lastUploadTotalBytes' = w.lastUploadTotalBytes
    /\ sas_service' = w.sas_service
    /\ lastStoring' = w.lastStoring
    /\ threads' = w.threads

\* IronBoxDXRESTClient(..., showDebugInfo=not d, ...) next to one built with d
OtherDebugFlag(w) ==
    [w EXCEPT !.constructed.showDebugInfo = ~@, !.config.showDebugInfo = ~@]

\* What a call is given from outside: the operation and its argument, the
\* answers of the server, and what the delegate did.
InputView(th) ==
    [op |-> th.op, arg |-> th.arg,
     answers |-> [i \in DOMAIN th.reqs |->
                     [status |-> th.reqs[i].status, content |-> th.reqs[i].content]],
     total |-> th.total, started |-> th.started, current |-> th.current,
     ended |-> SelectSeq(th.events, LAMBDA e : e \in {"transfer_done", "transfer_error"})]

\* Everything about an instance but its debug flag and its debug prints.
Observable(w) ==
    [config |-> [w.config EXCEPT !.showDebugInfo = FALSE],
     lastUploadTotalBytes |-> w.lastUploadTotalBytes,
     sas_service |-> w.sas_service,
     threads |-> [t \in Threads |->
                    [w.threads[t] EXCEPT
                        !.reqs = [i \in DOMAIN @ |-> [@[i] EXCEPT !.printed = <<>>]]]]]

InitTwin ==
    /\ \E showDebugInfo \in BOOLEAN, verbose \in BOOLEAN :
          constructed = [DefaultConfig EXCEPT !.showDebugInfo = showDebugInfo, !.verbose = verbose]
    /\ config = constructed
    /\ lastUploadTotalBytes = 0
    /\ sas_service = NoService
    /\ lastStoring = NoCallback
    /\ threads = [t \in Threads |-> IdleThread]
    /\ twin = [phase |-> "lead", other |-> OtherDebugFlag(World), before |-> OtherDebugFlag(World)]
    /\ server = NoServer

\* The leading instance takes any step of a sequential run.
Lead ==
    /\ twin.phase = "lead"
    /\ Observable(World) = Observable(twin.other)
    /\ Next

\* The leading instance has taken its step: it is the follower's turn.
Swap ==
    /\ twin.phase = "lead"
    /\ Observable(World) # Observable(twin.other)
    /\ Resume(twin.other)
    /\ twin' = [phase |-> "follow", other |-> World, before |-> twin.other]
    /\ UNCHANGED server

\* The answer to the latest request of a call.
LatestAnswer(th) ==
    {[status |-> th.reqs[i].status, content |-> th.reqs[i].content] : i \in {Len(th.reqs)} \ {0}}

\* The following instance is given the same call, answer or delegate event.
Follow ==
    LET lead == twin.other.threads[MainThread] IN
    /\ twin.phase = "follow"
    /\ World = twin.before
    /\ SequentialStep({o \in CrudOps : o.name = lead.op}, {lead.arg}, LatestAnswer(lead))
    /\ InputView(threads'[MainThread]) = InputView(lead)

\* The following instance has taken its step: the leader goes on.
SwapBack ==
    /\ twin.phase = "follow"
    /\ World # twin.before
    /\ Resume(twin.other)
    /\ twin' = [phase |-> "lead", other |-> World, before |-> World]
    /\ UNCHANGED server

NextTwin == Lead \/ Swap \/ Follow \/ SwapBack

SpecTwin == InitTwin /\ [][NextTwin]_vars

\* Two client instances built with the same arguments except for verbose,
\* given the same uploads, answers and delegate callbacks, compared the
\* same way.
\* IronBoxDXRESTClient(..., verbose=not v) next to one built with v
OtherVerboseFlag(w) ==
    [w EXCEPT !.constructed.verbose = ~@, !.config.verbose = ~@]

\* The position of an instance in its calls: everything but the verbose
\* flag, the console output, the stored byte count and the size a
\* finalize POST carries.
ControlView(w) ==
    [config |-> [w.config EXCEPT !.verbose = FALSE],
     sas_service |-> w.sas_service,
     threads |-> [t \in Threads |->
                    [w.threads[t] EXCEPT
                        !.written = <<>>,
                        !.linebreaks = 0,
                        !.reqs = [i \in DOMAIN @ |->
                                    IF RouteOf(@[i]) = FinalizeRoute
                                    THEN [@[i] EXCEPT !.request.json.originalSizeBytes = 0]
                                    ELSE @[i]]]]]

InitTwinVerbose ==
    /\ \E verbose \in BOOLEAN : constructed = [DefaultConfig EXCEPT !.verbose = verbose]
    /\ config = constructed
    /\ lastUploadTotalBytes = 0
    /\ sas_service = NoService
    /\ lastStoring = NoCallback
    /\ threads = [t \in Threads |-> IdleThread]
    /\ twin = [phase |-> "lead", other |-> OtherVerboseFlag(World), before |-> OtherVerboseFlag(World)]
    /\ server = NoServer

\* The leading instance takes any step of a sequence of uploads.
LeadUpload ==
    /\ twin.phase = "lead"
    /\ ControlView(World) = ControlView(twin.other)
    /\ \/ uploadBlobToSSEContainerFromPath(MainThread, ArgVals, Responses)
       \/ uploadBlobToSSEContainerFromText(MainThread, ArgVals, Responses)
       \/ UploadSteps(MainThread, Responses)

\* The leading instance has moved on in its call: it is the follower's turn.
SwapUpload ==
    /\ twin.phase = "lead"
    /\ ControlView(World) # ControlView(twin.other)
    /\ Resume(twin.other)
    /\ twin' = [phase |-> "follow", other |-> World, before |-> twin.other]
    /\ UNCHANGED server

NextTwinVerbose == LeadUpload \/ SwapUpload \/ Follow \/ SwapBack

SpecTwinVerbose == InitTwinVerbose /\ [][NextTwinVerbose]_vars

\* Two client instances built alike, given the same containers, answers
\* and delegate callbacks; whenever the leading one uploads from a path
\* the following one uploads from text, and the other way round.
\* An instance without the names of the operation and of the delegate
\* operation of its calls.
UploadView(w) ==
    [w EXCEPT !.threads = [t \in Threads |->
                              [@[t] EXCEPT !.op = IF @ \in UploadOps THEN "upload" ELSE @,
                                           !.delegate.op = IF @ = "none" THEN @ ELSE "create_blob"]]]

InitTwinUpload ==
    /\ \E verbose \in BOOLEAN : constructed = [DefaultConfig EXCEPT !.verbose = verbose]
    /\ config = constructed
    /\ lastUploadTotalBytes = 0
    /\ sas_service = NoService
    /\ lastStoring = NoCallback
    /\ threads = [t \in Threads |-> IdleThread]
    /\ twin = [phase |-> "lead", other |-> World, before |-> World]
    /\ server = NoServer

\* The leading instance takes any step of an upload from a path or from text.
LeadPathOrText ==
    /\ twin.phase = "lead"
    /\ UploadView(World) = UploadView(twin.other)
    /\ \/ uploadBlobToSSEContainerFromPath(MainThread, ArgVals, Responses)
       \/ uploadBlobToSSEContainerFromText(MainThread, ArgVals, Responses)
       \/ UploadSteps(MainThread, Responses)

\* The leading instance has taken its step: it is the follower's turn.
SwapPathOrText ==
    /\ twin.phase = "lead"
    /\ UploadView(World) # UploadView(twin.other)
    /\ Resume(twin.other)
    /\ twin' = [phase |-> "follow", other |-> World, before |-> twin.other]
    /\ UNCHANGED server

\* The following instance is given the same container, answer or delegate
\* event, in a call of the other upload operation.
FollowOtherUpload ==
    LET lead == twin.other.threads[MainThread] IN
    /\ twin.phase = "follow"
    /\ World = twin.before
    /\ \/ uploadBlobToSSEContainerFromPath(MainThread, {lead.arg}, LatestAnswer(lead))
       \/ uploadBlobToSSEContainerFromText(MainThread, {lead.arg}, LatestAnswer(lead))
       \/ UploadSteps(MainThread, LatestAnswer(lead))
    /\ [InputView(threads'[MainThread]) EXCEPT !.op = ""] = [InputView(lead) EXCEPT !.op = ""]
    /\ threads'[MainThread].op \in UploadOps => threads'[MainThread].op # lead.op
    /\ threads'[MainThread].op \in UploadOps <=> lead.op \in UploadOps

NextTwinUpload == LeadPathOrText \/ SwapPathOrText \/ FollowOtherUpload \/ SwapBack

SpecTwinUpload == InitTwinUpload /\ [][NextTwinUpload]_vars

\* ------------------------------------------------------ client and server
\* The remote service, as far as the specification describes it: a blob is
\* created waiting-for-upload by an accepted initialize, which hands out a
\* handshake of its own, and becomes ready, with the size it is told, by
\* an accepted finalize of that handshake. A listing answers with the
\* state of the blobs and changes nothing. A container has an ACL list;
\* adding a user who has an entry in it is refused and the entries stay as
\* they are.
Blobs == 1..NumHandshakes

NoBlob == [state |-> "absent", size |-> 0, finalizePosts |-> 0]

NoListing == [op |-> "none", arg |-> ""]

InitialServer ==
    [phase |-> "serving", blobs |-> [i \in Blobs |-> NoBlob], served |-> 0, listed |-> NoListing,
     acl |-> {}]

\* The server has handled every request of the call in progress.
ServerInSync == server.served = Len(threads[MainThread].reqs)

\* An initialize is refused, or accepted with the next unused handshake.
InitializeAnswers ==
    {[status |-> StatusOK, content |-> HandshakeContent(i)] :
        i \in {j \in Blobs : /\ server.blobs[j].state = "absent"
                             /\ \A k \in 1..(j - 1) : server.blobs[k].state # "absent"}}
        \cup {[status |-> 500, content |-> EmptyContent]}

\* A finalize is refused, or, for a blob that waits for its upload,
\* accepted with an empty success body.
FinalizeAnswers ==
    LET i == threads[MainThread].initResponse.id IN
    (IF i \in Blobs /\ server.blobs[i].state = "waiting"
     THEN {[status |-> StatusOK, content |-> c] : c \in EmptyBodies}
     ELSE {})
        \cup {[status |-> 500, content |-> EmptyContent]}

\* A number that tells the states and sizes of all blobs apart.
RECURSIVE BlobsCode(_, _)
BlobsCode(blobs, i) ==
    IF i = 0 THEN 0
    ELSE LET b == blobs[i]
             code == IF b.state = "absent" THEN 0
                     ELSE IF b.state = "waiting" THEN 1
                     ELSE 2 + b.size
         IN code + (MaxBytes + 3) * BlobsCode(blobs, i - 1)

\* A number that tells the ACL lists apart.
AclCode(acl) == (IF "a1" \in acl THEN 1 ELSE 0) + (IF "a2" \in acl THEN 2 ELSE 0)

\* A listing is answered with what the server holds.
ListingAnswers ==
    {[status |-> StatusOK,
      content |-> [kind |-> "object", keys |-> {"items"},
                   id |-> 4 * BlobsCode(server.blobs, NumHandshakes) + AclCode(server.acl)]]}

\* A request the server turns down: a failure status, with no body or
\* with an empty JSON object.
Refusals == {[status |-> 500, content |-> c] : c \in {EmptyContent, EmptyObjectContent}}

\* The answer to an ACL add for user: turned down when the user has an
\* entry in the list (and possibly for other reasons), else accepted with
\* the record of the new entry.
AclAddAnswers(user) ==
    (IF user \in server.acl THEN {}
     ELSE {[status |-> StatusOK, content |-> ResultContent]})
        \cup Refusals

AclAddRoute == "dx/cloud/sse/containers/acl/add/api"

AclAddOps == {o \in CrudOps : o.name = "addUserToSSEContainerACLs"}

ListingNames ==
    {"listSSEContainers", "listSSEContainerBlobs", "listSSEContainerACLs",
     "management_listCustomSecurityGroups"}

ListingOps == {o \in CrudOps : o.name \in ListingNames}

InitAtServer ==
    /\ \E verbose \in BOOLEAN : constructed = [DefaultConfig EXCEPT !.verbose = verbose]
    /\ config = constructed
    /\ lastUploadTotalBytes = 0
    /\ sas_service = NoService
    /\ lastStoring = NoCallback
    /\ threads = [t \in Threads |-> IdleThread]
    /\ twin = NoTwin
    /\ server = InitialServer

\* The client goes on once the server has handled what was sent: it starts
\* an upload or a listing, or takes the next step of its upload.
ClientStep ==
    /\ ServerInSync
    /\ \/ uploadBlobToSSEContainerFromPath(MainThread, {"a1"}, InitializeAnswers)
       \/ uploadBlobToSSEContainerFromText(MainThread, {"a1"}, InitializeAnswers)
       \/ UploadSteps(MainThread, FinalizeAnswers)
       \/ CrudCall(MainThread, ListingOps, ArgVals, ListingAnswers)
       \/ \E user \in ArgVals : CrudCall(MainThread, AclAddOps, {user}, AclAddAnswers(user))

\* The effect on the server of the request it has just answered.
Serve ==
    LET th == threads[MainThread]
        k == server.served + 1
        x == th.reqs[k]
        accepted == x.status = StatusOK
        blobs == server.blobs
        after ==
            IF RouteOf(x) = InitializeRoute /\ accepted
            THEN [blobs EXCEPT ![x.content.id].state = "waiting"]
            ELSE IF RouteOf(x) = FinalizeRoute
            THEN LET i == x.request.json.finalizeToken[2] IN
                 [blobs EXCEPT ![i].finalizePosts = IF @ = 0 THEN 1 ELSE 2,
                               ![i].state = IF accepted THEN "ready" ELSE @,
                               ![i].size = IF accepted THEN x.request.json.originalSizeBytes ELSE @]
            ELSE blobs
    IN
    /\ server.served < Len(th.reqs)
    /\ server' = [server EXCEPT
           !.served = k,
           !.blobs = after,
           !.acl = IF RouteOf(x) = AclAddRoute /\ accepted
                   THEN @ \cup {x.request.json.userEmail} ELSE @,
           !.listed = IF th.op \in ListingNames
                      THEN [op |-> th.op, arg |-> th.arg, request |-> x.request,
                            outcome |-> th.outcome, result |-> th.result]
                      ELSE IF accepted THEN NoListing ELSE @]
    /\ UNCHANGED <<twin, constructed, config, lastUploadTotalBytes, sas_service, lastStoring, threads>>

\* The call is over; the next request the server sees opens another call.
Forget ==
    /\ threads[MainThread].pc = "idle"
    /\ server.served # 0
    /\ server' = [server EXCEPT !.served = 0]
    /\ UNCHANGED <<twin, constructed, config, lastUploadTotalBytes, sas_service, lastStoring, threads>>

NextServer == ClientStep \/ Serve \/ Forget

SpecServer == InitAtServer /\ [][NextServer]_vars

TypeOK ==
    /\ lastUploadTotalBytes \in 0..MaxBytes
    /\ \A t \in Threads :
          threads[t].op # "__progressbar" => threads[t].current \in 0..threads[t].total

\* ------------------------------------------------------------ properties
IsUpload(th) == th.op \in UploadOps

Posts(th, route) == {i \in DOMAIN th.reqs : RouteOf(th.reqs[i]) = route}

EventAt(th, e) == {i \in DOMAIN th.events : th.events[i] = e}

Before(th, e1, e2) ==
    \A i \in EventAt(th, e2) : \E j \in EventAt(th, e1) : j < i

\* C1: in every upload call the initialize response is received before the
\* delegate transfer starts, and the delegate transfer has completed before
\* the finalize POST is sent.
C1_UploadStepsInOrder ==
    \A t \in Threads :
        LET th == threads[t] IN
        IsUpload(th) =>
            /\ Before(th, "initialize_post", "initialize_response")
            /\ Before(th, "initialize_response", "transfer_start")
            /\ Before(th, "transfer_start", "transfer_done")
            /\ Before(th, "transfer_done", "finalize_post")
            /\ (th.delegate # NoDelegate =>
                    /\ Posts(th, InitializeRoute) = {1}
                    /\ th.reqs[1].status = StatusOK
                    /\ th.initResponse # NoValue)
            /\ (Posts(th, FinalizeRoute) # {} =>
                    /\ th.delegate # NoDelegate
                    /\ TransferFinished(th)
                    /\ th.pc = "done")

C1_Witness ==
    \E t \in Threads :
        /\ IsUpload(threads[t])
        /\ threads[t].outcome = "returned"
        /\ threads[t].events =
              <<"initialize_post", "initialize_response", "transfer_start",
                "transfer_done", "finalize_post", "finalize_response">>

\* C2: the originalSizeBytes of an upload's finalize POST equals the total
\* the delegate reported in the progress callbacks of that upload.
C2_FinalizeSizeIsTransferredTotal ==
    \A t \in Threads :
        LET th == threads[t] IN
        IsUpload(th) =>
            \A i \in Posts(th, FinalizeRoute) :
                th.reqs[i].request.json.originalSizeBytes = th.total

\* C3: a response with a status other than 200 is never JSON-parsed and ends
\* the operation with a raised failure.
C3_Non200RaisesUnparsed ==
    \A t \in Threads :
        LET th == threads[t] IN
        \A i \in DOMAIN th.reqs :
            th.reqs[i].status # StatusOK =>
                /\ ~th.reqs[i].parsed
                /\ i = Len(th.reqs)
                /\ th.pc = "done"
                /\ th.outcome = "raised"

C3_Witness ==
    \E t \in Threads :
        LET th == threads[t] IN
        /\ Len(th.reqs) = 2
        /\ RouteOf(th.reqs[2]) = FinalizeRoute
        /\ th.reqs[2].status # StatusOK
        /\ th.reqs[2].content = HandshakeContent(1)
        /\ th.outcome = "raised"

\* C4: an upload whose initialize step fails (non-200, or 200 with an empty
\* or null payload) fails at once: no delegate call, no finalize POST, no
\* second initialize POST.
InitializeFailed(x) == x.status # StatusOK \/ x.content \in EmptyBodies

C4_InitializeFailureEndsUpload ==
    \A t \in Threads :
        LET th == threads[t] IN
        (IsUpload(th) /\ InitializeFailed(th.reqs[1])) =>
            /\ th.pc = "done"
            /\ th.outcome = "raised"
            /\ Len(th.reqs) = 1
            /\ th.delegate = NoDelegate
            /\ EventAt(th, "transfer_start") = {}

C4_Witness ==
    \E t \in Threads :
        LET th == threads[t] IN
        /\ IsUpload(th)
        /\ th.reqs[1].status = StatusOK
        /\ th.reqs[1].content = NullContent
        /\ th.error = "Initialize SSE blob returned an invalid response"

\* C5: a 200 response with an empty body is a success on the finalize route
\* (the upload returns) and a failure on the initialize route.
C5_EmptyBodyIsRouteSpecific ==
    \A t \in Threads :
        LET th == threads[t] IN
        IsUpload(th) =>
            \A i \in DOMAIN th.reqs :
                (th.reqs[i].status = StatusOK /\ th.reqs[i].content \in EmptyBodies) =>
                    /\ (RouteOf(th.reqs[i]) = FinalizeRoute => th.outcome = "returned")
                    /\ (RouteOf(th.reqs[i]) = InitializeRoute => th.outcome = "raised")

\* C6: when two uploads run at once on one client instance, the size a
\* finalize POST carries is the total of whichever progress callback stored
\* last on the instance, its own upload's or the other's.
StoredTotal == IF lastStoring = NoCallback THEN 0 ELSE lastStoring.total

C6_FinalizeCarriesLatestStoredTotal ==
    [][\A t \in Threads :
          (Posts(threads[t], FinalizeRoute) = {} /\ Posts(threads'[t], FinalizeRoute) # {}) =>
              \A i \in Posts(threads'[t], FinalizeRoute) :
                  threads'[t].reqs[i].request.json.originalSizeBytes = StoredTotal]_vars

\* One upload's finalize POST carries the total of the other upload.
C6_Witness ==
    \E t, u \in Threads :
        /\ t # u
        /\ IsUpload(threads[t])
        /\ IsUpload(threads[u])
        /\ threads[t].total # 0
        /\ lastStoring.thread = u
        /\ \E i \in Posts(threads[t], FinalizeRoute) :
              /\ threads[t].reqs[i].request.json.originalSizeBytes = threads[u].total
              /\ threads[t].reqs[i].request.json.originalSizeBytes # threads[t].total

\* C7: a download call sends one POST, to the download route, calls the
\* delegate's download only after a 200 answer to it, and sends no finalize
\* POST whether it succeeds or fails.
C7_DownloadSendsOnePost ==
    \A t \in Threads :
        LET th == threads[t] IN
        th.op = DownloadOp =>
            /\ Len(th.reqs) = 1
            /\ th.reqs[1].request.method = "POST"
            /\ RouteOf(th.reqs[1]) = DownloadRoute
            /\ Posts(th, FinalizeRoute) = {}
            /\ (th.delegate # NoDelegate =>
                    th.delegate.op = "get_blob_to_path" /\ th.reqs[1].status = StatusOK)
            /\ (th.outcome = "returned" => th.delegate # NoDelegate /\ TransferFinished(th))

C7_Witness ==
    \E t \in Threads :
        /\ threads[t].op = DownloadOp
        /\ threads[t].outcome = "returned"
        /\ threads[t].total # 0
        /\ threads[t].events =
              <<"download_post", "download_response", "transfer_start", "transfer_done">>

\* C8: apart from the stored byte count, every attribute of the client
\* instance is as the constructor left it.
C8_OnlyByteCountChanges ==
    /\ config = constructed
    /\ sas_service = NoService

\* C9: the stored byte count is the total given to one progress callback,
\* the most recent one that stored it (0 before any did); it is never a sum.
C9_StoredCountIsOneCallbackTotal ==
    lastUploadTotalBytes = StoredTotal

\* A later upload's total has replaced the larger total of an earlier one.
C9_Witness ==
    /\ lastStoring.replaced = MaxBytes
    /\ lastStoring.total = 1
    /\ lastUploadTotalBytes = 1

\* C10: every request is a POST to the constructor's base URL followed by
\* the operation's route, with the constructor's public ID and secret in
\* the two auth headers and the constructor's TLS-verification flag; the
\* configuration itself never changes.
ExpectedRoute(th, i) ==
    IF IsUpload(th) THEN (IF i = 1 THEN InitializeRoute ELSE FinalizeRoute)
    ELSE IF th.op = DownloadOp THEN DownloadRoute
    ELSE (CHOOSE o \in CrudOps : o.name = th.op).route

C10_RequestsCarryConstructorConfig ==
    /\ config = constructed
    /\ \A t \in Threads :
        LET th == threads[t] IN
        \A i \in DOMAIN th.reqs :
            /\ th.reqs[i].request.method = "POST"
            /\ th.reqs[i].request.url = <<constructed.baseAPIUrl, ExpectedRoute(th, i)>>
            /\ th.reqs[i].request.headers =
                  [ironbox_apikey_publicid |-> constructed.apiKeyPublicID,
                   ironbox_apikey_secret |-> constructed.apiKeySecret]
            /\ th.reqs[i].request.verify = constructed.verifySSLCert

\* The second request of an upload, on a client built with other than the
\* default arguments.
C10_Witness ==
    /\ constructed.apiKeyPublicID = "pk-B"
    /\ constructed.apiKeySecret = "sk-B"
    /\ constructed.baseAPIUrl = "https://localhost:44300/api/v2/"
    /\ ~constructed.verifySSLCert
    /\ \E t \in Threads :
          /\ Len(threads[t].reqs) = 2
          /\ threads[t].reqs[2].request.url[2] = FinalizeRoute

\* C11: a call of a CRUD or management operation sends exactly one POST, to
\* the operation's route, for any argument value and whether the answer is
\* a 200 or not; the call is over as soon as that answer is in.
CrudNames == {o.name : o \in CrudOps}

IsCrud(th) == th.op \in CrudNames

C11_CrudCallIsOneRoundTrip ==
    \A t \in Threads :
        LET th == threads[t] IN
        IsCrud(th) =>
            /\ Len(th.reqs) = 1
            /\ th.reqs[1].request.method = "POST"
            /\ RouteOf(th.reqs[1]) = ExpectedRoute(th, 1)
            /\ th.pc = "done"
            /\ th.outcome = (IF th.reqs[1].status = StatusOK /\ th.reqs[1].content # EmptyContent
                             THEN "returned" ELSE "raised")

\* A call that got a 500 has raised after its single request.
C11_Witness ==
    \E t \in Threads :
        LET th == threads[t] IN
        /\ th.op = "addUserToSSEContainerACLs"
        /\ th.outcome = "raised"
        /\ th.error = "Unable to add user to server-side encrypted container ACLs"
        /\ Len(th.reqs) = 1
        /\ th.reqs[1].status = 500

C13_DelegateErrorPropagates ==
    \A t \in Threads :
        LET th == threads[t] IN
        EventAt(th, "transfer_error") # {} =>
            /\ th.pc = "done"
            /\ th.outcome = "raised"
            /\ th.error = "DelegateError"
            /\ th.result = NoValue
            /\ Posts(th, FinalizeRoute) = {}
            /\ Len(th.reqs) = 1
            /\ th.events[Len(th.events)] = "transfer_error"

\* An upload whose delegate raised after it had moved some of its bytes.
C13_Witness ==
    \E t \in Threads :
        LET th == threads[t] IN
        /\ IsUpload(th)
        /\ th.started
        /\ th.current # 0
        /\ th.current < th.total
        /\ th.error = "DelegateError"
        /\ th.events = <<"initialize_post", "initialize_response", "transfer_start", "transfer_error">>

\* C16: a progress callback of an upload or a download with current = 0
\* writes nothing to the output stream, and with verbose on a callback with
\* current # 0 writes exactly one bar line, the one for its (current, total).
Bars(written) == {i \in DOMAIN written : written[i].kind = "bar"}

IsTransfer(th) == IsUpload(th) \/ th.op = DownloadOp

C16_BarDrawnOnNonzeroCallbacksOnly ==
    \A t \in Threads :
        LET th == threads[t] IN
        (IsTransfer(th) /\ th.started) =>
            /\ (th.current = 0 => th.written = <<>>)
            /\ ((th.current # 0 /\ config.verbose) =>
                    /\ Cardinality(Bars(th.written)) = 1
                    /\ \A i \in Bars(th.written) :
                          /\ i = 1
                          /\ th.written[i].current = th.current
                          /\ th.written[i].total = th.total)

\* A download with verbose on whose latest callback drew the bar for 1 of
\* MaxBytes bytes, after a first callback (0, MaxBytes) that drew nothing.
C16_Witness ==
    \E t \in Threads :
        LET th == threads[t] IN
        /\ th.op = DownloadOp
        /\ config.verbose
        /\ th.pc = "downloading"
        /\ th.total = MaxBytes
        /\ th.current = 1
        /\ th.written = <<BarLine("Downloading", ProgressBarSize \div MaxBytes, 1, MaxBytes), CR>>

\* C17: every call of the renderer with current = 0 or total = 0 draws a
\* bar with no filled cell and raises no division error.
Rendered(th) == th.op = "__progressbar" /\ th.pc = "done"

Breaks(written) == {i \in DOMAIN written : written[i] = LF}

InPlace(written) ==
    \/ written = <<>>
    \/ /\ Len(written) \in {2, 3}
       /\ written[1].kind = "bar"
       /\ written[2] = CR
       /\ Breaks(written) \subseteq {3}

C18_OneLineBreakPerTransfer ==
    \A t \in Threads :
        LET th == threads[t] IN
        (IsTransfer(th) /\ th.started /\ config.verbose) =>
            /\ InPlace(th.written)
            /\ (th.current # th.total => Breaks(th.written) = {})
            /\ (th.current = th.total => Breaks(th.written) # {})
            /\ (EventAt(th, "transfer_done") # {} => th.linebreaks = 1)

\* C18: with the bar on, each callback of a transfer redraws in place; a
\* callback writes a line break exactly when its current equals total and
\* is not 0. A transfer of zero bytes, whose callbacks are all suppressed,
\* gets no line break; any other completed transfer gets one for each
\* callback that reported current = total, so one when the delegate
\* reports completion once.
C18_LineBreakOnNonzeroCompletion ==
    \A t \in Threads :
        LET th == threads[t] IN
        (IsTransfer(th) /\ th.started /\ config.verbose) =>
            /\ InPlace(th.written)
            /\ (Breaks(th.written) # {} <=> (th.current = th.total /\ th.current # 0))
            /\ (th.linebreaks = 0 <=> (th.current # th.total \/ th.total = 0))
            /\ (EventAt(th, "transfer_done") # {} =>
                    IF th.total = 0 THEN th.linebreaks = 0 ELSE th.linebreaks >= 1)

\* An upload of MaxBytes bytes has completed: its last callback wrote the
\* full bar and the only line break of the transfer.
C18_Witness ==
    \E t \in Threads :
        LET th == threads[t] IN
        /\ IsUpload(th)
        /\ config.verbose
        /\ th.total = MaxBytes
        /\ EventAt(th, "transfer_done") # {}
        /\ th.linebreaks = 1
        /\ th.written = <<BarLine("Uploading", ProgressBarSize, MaxBytes, MaxBytes), CR, LF>>

\* C15: an upload or a download whose handshake POST is answered by a 200
\* with an empty or null body fails with the invalid-response failure
\* before the delegate is invoked, and starts no transfer.
InvalidResponseErrors == {"Initialize SSE blob returned an invalid response"}

C15_EmptyHandshakeIsInvalidResponse ==
    \A t \in Threads :
        LET th == threads[t] IN
        (IsTransfer(th) /\ th.reqs[1].status = StatusOK /\ th.reqs[1].content \in EmptyBodies) =>
            /\ th.outcome = "raised"
            /\ th.error \in InvalidResponseErrors
            /\ th.delegate = NoDelegate
            /\ EventAt(th, "transfer_start") = {}

\* C14: of two clients built alike but for showDebugInfo and given the same
\* operations, server answers and delegate behaviour, the second can take
\* every step the first takes and then agrees with it in everything but
\* the debug prints: the requests sent, the position, result or failure of
\* the call, and the stored byte count.
C14_DebugModeKeepsControlFlow ==
    twin.phase = "follow" =>
        IF World = twin.before
        THEN ENABLED Follow
        ELSE /\ Observable(World) = Observable(twin.other)
             /\ World.config.showDebugInfo # twin.other.config.showDebugInfo

\* The client with debug on has returned from an upload of MaxBytes bytes
\* after printing both responses; the client with debug off, given the
\* same answers, has returned too, without a print.
C14_Witness ==
    /\ twin.phase = "follow"
    /\ World # twin.before
    /\ config.showDebugInfo
    /\ config.verbose
    /\ lastUploadTotalBytes = MaxBytes
    /\ twin.other.lastUploadTotalBytes = MaxBytes
    /\ LET th == threads[MainThread]
           tw == twin.other.threads[MainThread]
       IN /\ IsUpload(th)
          /\ th.outcome = "returned"
          /\ tw.outcome = "returned"
          /\ Len(th.reqs) = 2
          /\ \A i \in 1..2 : th.reqs[i].printed # <<>> /\ tw.reqs[i].printed = <<>>
          /\ th.reqs[2].request.json.originalSizeBytes = MaxBytes

\* C19: the blob of an upload call's handshake becomes ready only by that
\* call's own accepted finalize POST, sent after its transfer, and with the
\* size that POST carries; a handshake gets at most one finalize POST; and
\* the blob of a call that failed at its transfer or at finalize is still
\* waiting for its upload.
OwnBlob(th, i) ==
    /\ IsUpload(th)
    /\ th.reqs # <<>>
    /\ th.reqs[1].status = StatusOK
    /\ th.reqs[1].content = HandshakeContent(i)

MarkedReadyByOwnFinalize(i) ==
    (server.blobs[i].state # "ready" /\ server'.blobs[i].state = "ready") =>
        LET th == threads[MainThread] IN
        /\ OwnBlob(th, i)
        /\ EventAt(th, "transfer_done") # {}
        /\ EventAt(th, "transfer_error") = {}
        /\ Posts(th, FinalizeRoute) = {2}
        /\ th.reqs[2].status = StatusOK
        /\ th.reqs[2].request.json.finalizeToken = Field(th.initResponse, "finalizeToken")
        /\ server'.blobs[i].size = th.reqs[2].request.json.originalSizeBytes

ChangedInOwnCallOnly(i) ==
    server'.blobs[i] # server.blobs[i] => OwnBlob(threads[MainThread], i)

FailedCallLeavesBlobWaiting(i) ==
    LET th == threads'[MainThread] IN
    (OwnBlob(th, i) /\ th.outcome = "raised" /\ server'.served = Len(th.reqs)) =>
        server'.blobs[i].state = "waiting"

C19_BlobReadyOnlyByOwnFinalize ==
    [][\A i \in Blobs :
          /\ MarkedReadyByOwnFinalize(i)
          /\ ChangedInOwnCallOnly(i)
          /\ server'.blobs[i].finalizePosts <= 1
          /\ FailedCallLeavesBlobWaiting(i)]_vars

\* C20: a call of a listing operation leaves the state of the client and
\* of the server as it was, and when the latest listing call before it,
\* with nothing accepted by the server in between, had the same operation
\* and parameters, it sends the same request and ends with the same result.
ListingCall == threads[MainThread].pc = "idle" /\ threads'[MainThread].op \in ListingNames

ListingServed == server'.served > server.served /\ threads[MainThread].op \in ListingNames

AclAddCall(th) == th.op = "addUserToSSEContainerACLs"

C21_AddExistingAclUserFails ==
    [][/\ (threads[MainThread].pc = "idle" /\ AclAddCall(threads'[MainThread])
             /\ threads'[MainThread].arg \in server.acl) =>
            LET th == threads'[MainThread] IN
            /\ th.pc = "done"
            /\ th.outcome = "raised"
            /\ th.error = "Unable to add user to server-side encrypted container ACLs"
            /\ Len(th.reqs) = 1
            /\ th.reqs[1].request.json.userEmail = th.arg
            /\ server'.acl = server.acl
       /\ (AclAddCall(threads[MainThread]) /\ threads[MainThread].arg \in server.acl) =>
            server'.acl = server.acl]_vars

\* Both users have an entry; a second add for one of them, answered with
\* a failure status and an empty JSON object, has raised and has been
\* handled by the server.
C21_Witness ==
    LET th == threads[MainThread] IN
    /\ AclAddCall(th)
    /\ server.acl = ArgVals
    /\ server.served = 1
    /\ th.outcome = "raised"
    /\ th.reqs[1].content = EmptyObjectContent

\* C22: the delegate operation of an upload or a download is given the
\* values of the handshake that call's own first POST returned: its
\* accessToken as credential, its cloudContainerStorageName as container,
\* its cloudBlobStorageName as blob, and as storage account the first label
\* of the host name of its accessSignatureUri.
OwnHandshake(th) == JsonParse(th.reqs[1].content).value

C22_DelegateUsesOwnHandshake ==
    \A t \in Threads :
        LET th == threads[t] IN
        th.delegate # NoDelegate =>
            /\ IsTransfer(th)
            /\ th.reqs[1].status = StatusOK
            /\ th.initResponse = OwnHandshake(th)
            /\ th.delegate.op = DelegateOp(th.op)
            /\ th.delegate.sas_token = <<"accessToken", OwnHandshake(th).id>>
            /\ th.delegate.container_name = <<"cloudContainerStorageName", OwnHandshake(th).id>>
            /\ th.delegate.blob_name = <<"cloudBlobStorageName", OwnHandshake(th).id>>
            /\ th.delegate.account_name = AccessSignatureUri(OwnHandshake(th).id).hostname[1]

\* An upload whose handshake is the last of the server's has handed its
\* bytes to the delegate, on a client that has uploaded before.
C22_Witness ==
    \E t \in Threads :
        LET th == threads[t] IN
        /\ th.op = "uploadBlobToSSEContainerFromText"
        /\ th.pc = "uploading"
        /\ ~th.started
        /\ lastStoring # NoCallback
        /\ th.reqs[1].content = HandshakeContent(NumHandshakes)
        /\ th.delegate =
              [op |-> "create_blob_from_text",
               account_name |-> <<"ironboxaccount", NumHandshakes>>,
               sas_token |-> <<"accessToken", NumHandshakes>>,
               container_name |-> <<"cloudContainerStorageName", NumHandshakes>>,
               blob_name |-> <<"cloudBlobStorageName", NumHandshakes>>]

\* C23: an upload call that has returned has sent two requests, one
\* initialize POST followed by one finalize POST, and the finalize POST
\* carries the finalizeToken and the blobPublicID of the handshake its own
\* initialize POST was answered with.
C23_ReturnedUploadFinalizedOwnHandshake ==
    \A t \in Threads :
        LET th == threads[t] IN
        (IsUpload(th) /\ th.outcome = "returned") =>
            /\ Len(th.reqs) = 2
            /\ Posts(th, InitializeRoute) = {1}
            /\ Posts(th, FinalizeRoute) = {2}
            /\ th.reqs[1].status = StatusOK
            /\ th.reqs[1].content.keys = HandshakeKeys
            /\ th.reqs[2].request.json.finalizeToken = <<"finalizeToken", th.reqs[1].content.id>>
            /\ th.reqs[2].request.json.blobPublicID = <<"blobPublicID", th.reqs[1].content.id>>

\* An upload given the last of the server's handshakes has returned, on a
\* client whose earlier upload stored its total.
C23_Witness ==
    \E t \in Threads :
        LET th == threads[t] IN
        /\ IsUpload(th)
        /\ th.outcome = "returned"
        /\ th.total = 0
        /\ lastUploadTotalBytes # 0
        /\ th.reqs[1].content = HandshakeContent(NumHandshakes)
        /\ th.reqs[2].request.json.finalizeToken = <<"finalizeToken", NumHandshakes>>
        /\ th.reqs[2].request.json.blobPublicID = <<"blobPublicID", NumHandshakes>>

\* C24: of two clients built alike but for verbose and given the same
\* uploads, server answers and delegate callbacks, each finalize POST of
\* the one carries the same originalSizeBytes as that of the other.
C24_FinalizeSizeIgnoresVerbose ==
    (twin.phase = "follow" /\ World # twin.before
        /\ config.verbose # twin.other.config.verbose) =>
        LET th == threads[MainThread]
            tw == twin.other.threads[MainThread]
        IN /\ Posts(th, FinalizeRoute) = Posts(tw, FinalizeRoute)
           /\ \A i \in Posts(th, FinalizeRoute) :
                 th.reqs[i].request.json.originalSizeBytes =
                     tw.reqs[i].request.json.originalSizeBytes

\* C25: the finalize POST of an upload whose delegate moved no bytes (total
\* 0, zero-progress callbacks only) carries originalSizeBytes = 0, whatever
\* earlier uploads on the client transferred.
C25_EmptyUploadFinalizesWithZero ==
    \A t \in Threads :
        LET th == threads[t] IN
        (IsUpload(th) /\ th.total = 0) =>
            \A i \in Posts(th, FinalizeRoute) :
                th.reqs[i].request.json.originalSizeBytes = 0

\* C26: on a client with verbose on and one call at a time, the finalize
\* POST of an upload whose delegate reported a callback with current # 0
\* carries that upload's total as originalSizeBytes, whatever uploads and
\* downloads the client ran before.
C26_VerboseFinalizeSizeIsOwnTotal ==
    \A t \in Threads :
        LET th == threads[t] IN
        (config.verbose /\ IsUpload(th) /\ th.started /\ th.current # 0) =>
            /\ lastUploadTotalBytes = th.total
            /\ \A i \in Posts(th, FinalizeRoute) :
                  th.reqs[i].request.json.originalSizeBytes = th.total

\* An upload of one byte has sent its finalize POST with size 1 on a
\* client whose stored count was MaxBytes, from an earlier upload, when
\* this upload's callback replaced it.
C26_Witness ==
    \E t \in Threads :
        LET th == threads[t] IN
        /\ config.verbose
        /\ IsUpload(th)
        /\ th.total = 1
        /\ lastStoring.replaced = MaxBytes
        /\ Posts(th, FinalizeRoute) = {2}
        /\ th.reqs[2].request.json.originalSizeBytes = 1

\* C27: a render with total > 0 and 0 <= current <= total draws one bar of
\* ProgressBarSize cells: the filled cells are the integer part of
\* ProgressBarSize * current / total, between 0 and ProgressBarSize, the
\* unfilled cells make up the rest, and all cells are filled exactly when
\* current = total.
C27_BarHasFixedWidth ==
    \A t \in Threads :
        LET th == threads[t] IN
        (Rendered(th) /\ th.total > 0 /\ th.current <= th.total) =>
            /\ th.outcome = "returned"
            /\ Bars(th.written) = {1}
            /\ LET bar == th.written[1] IN
               /\ bar.hashes \in 0..ProgressBarSize
               /\ bar.hashes * th.total <= ProgressBarSize * th.current
               /\ ProgressBarSize * th.current < (bar.hashes + 1) * th.total
               /\ bar.hashes + bar.dots = ProgressBarSize
               /\ (bar.hashes = ProgressBarSize <=> th.current = th.total)

\* The renderer has drawn 1 of 3: 13 filled and 27 unfilled cells.
C27_Witness ==
    \E t \in Threads :
        LET th == threads[t] IN
        /\ Rendered(th)
        /\ th.current = 1
        /\ th.total = 3
        /\ th.written[1].hashes = 13
        /\ th.written[1].dots = 27

\* C28: the stored byte count changes only in a progress callback of an
\* upload, one with current # 0, which sets it to that upload's total; no
\* step of a download or of a CRUD or management call changes it.
C28_OnlyUploadCallbacksStore ==
    [][LET th == threads[MainThread]
           after == threads'[MainThread]
       IN /\ (lastUploadTotalBytes' # lastUploadTotalBytes =>
                 /\ IsUpload(th)
                 /\ th.pc = "uploading"
                 /\ after.pc = "uploading"
                 /\ after.current # 0
                 /\ lastUploadTotalBytes' = th.total)
          /\ ((after.op = DownloadOp \/ IsCrud(after) \/ th.op = DownloadOp \/ IsCrud(th)) =>
                 lastUploadTotalBytes' = lastUploadTotalBytes)]_vars

\* A download of one byte, bar drawn, has returned on a client whose
\* stored count is still the MaxBytes of an earlier upload.
C28_Witness ==
    LET th == threads[MainThread] IN
    /\ th.op = DownloadOp
    /\ th.outcome = "returned"
    /\ config.verbose
    /\ th.total = 1
    /\ th.current = 1
    /\ th.written # <<>>
    /\ lastUploadTotalBytes = MaxBytes

\* C29: a call that fails at its first POST, whether a CRUD or management
\* call, a download or the initialize of an upload, leaves every attribute
\* of the client as it was before the call: the configuration, the stored
\* byte count and the transfer service.
FailsAtFirstPost ==
    /\ threads[MainThread].pc = "idle"
    /\ threads'[MainThread].outcome = "raised"

C29_FirstPostFailureChangesNothing ==
    [][FailsAtFirstPost =>
          /\ Len(threads'[MainThread].reqs) = 1
          /\ threads'[MainThread].delegate = NoDelegate
          /\ config' = config
          /\ lastUploadTotalBytes' = lastUploadTotalBytes
          /\ sas_service' = sas_service]_vars

\* An upload has failed at initialize with a 500 on a client that holds
\* the byte count and the service of an earlier upload.
C29_Witness ==
    LET th == threads[MainThread] IN
    /\ IsUpload(th)
    /\ th.outcome = "raised"
    /\ th.error = "Unable to initialize SSE blob"
    /\ th.reqs[1].status = 500
    /\ lastUploadTotalBytes = MaxBytes
    /\ sas_service.present

\* C30: of two clients built alike and given the same container, server
\* answers and delegate callbacks, one in an upload from a path and the
\* other in an upload from text, the second can take every step the first
\* takes, and then both have sent the same requests (route, body, finalize
\* size), stand at the same point with the same result or failure, and
\* hold the same client state; they differ in the operation the delegate
\* is called with, create_blob_from_path or create_blob_from_text.
C30_PathAndTextUploadAgree ==
    twin.phase = "follow" =>
        IF World = twin.before
        THEN ENABLED FollowOtherUpload
        ELSE LET th == threads[MainThread]
                 tw == twin.other.threads[MainThread]
             IN /\ UploadView(World) = UploadView(twin.other)
                /\ [i \in DOMAIN th.reqs |-> th.reqs[i].request] =
                       [i \in DOMAIN tw.reqs |-> tw.reqs[i].request]
                /\ lastUploadTotalBytes = twin.other.lastUploadTotalBytes
                /\ sas_service = twin.other.sas_service
                /\ config = twin.other.config
                /\ (IsUpload(tw) => IsUpload(th) /\ th.op # tw.op)
                /\ (tw.delegate # NoDelegate =>
                       /\ th.delegate.op = DelegateOp(th.op)
                       /\ tw.delegate.op = DelegateOp(tw.op)
                       /\ th.delegate.op # tw.delegate.op)

\* An upload from a path and an upload from text, both of MaxBytes bytes
\* with verbose on, have returned after the same two requests.
C30_Witness ==
    /\ twin.phase = "follow"
    /\ World # twin.before
    /\ config.verbose
    /\ LET th == threads[MainThread]
           tw == twin.other.threads[MainThread]
       IN /\ tw.op = "uploadBlobToSSEContainerFromPath"
          /\ th.op = "uploadBlobToSSEContainerFromText"
          /\ tw.delegate.op = "create_blob_from_path"
          /\ th.delegate.op = "create_blob_from_text"
          /\ th.outcome = "returned"
          /\ tw.outcome = "returned"
          /\ Len(th.reqs) = 2
          /\ th.reqs[2].request = tw.reqs[2].request
          /\ th.reqs[2].request.json.originalSizeBytes = MaxBytes

====
